---------------------------- MODULE Spec2Model ----------------------------
(***************************************************************************)
(* gotest: a command line tool that finds the Go packages below the        *)
(* current directory, runs `go test` on them with a coverage profile at a  *)
(* fixed path, prints a per-package coverage summary and opens the HTML    *)
(* report.  The model follows main.go function by function.  Strings are   *)
(* TLA+ strings taken apart with SubSeq; paths use '/' as the separator    *)
(* (the Unix build of path/filepath).                                      *)
(***************************************************************************)
EXTENDS Integers, Sequences, FiniteSets, TLC

(***************************************************************************)
(* Bounds of the model.                                                    *)
(***************************************************************************)
\* longest command line of the flag-parsing input family
MaxArgs == 3
\* most files and directories below the walk root in the walk input family
MaxNodes == 4
\* most lines of a coverage profile in the profile input family
MaxLines == 3

(***************************************************************************)
(* package strings, unicode, strconv: the library functions main.go calls. *)
(***************************************************************************)
Char(s, i) == SubSeq(s, i, i)

HasPrefix(s, prefix) ==
    Len(s) >= Len(prefix) /\ SubSeq(s, 1, Len(prefix)) = prefix

HasSuffix(s, suffix) ==
    Len(s) >= Len(suffix) /\ SubSeq(s, Len(s) - Len(suffix) + 1, Len(s)) = suffix

\* strings.Contains
Contains(s, substr) ==
    \E i \in 1..(Len(s) - Len(substr) + 1) : SubSeq(s, i, i + Len(substr) - 1) = substr

\* strings.Index, 1-based; 0 stands for Go's -1
Index(s, substr) ==
    IF Contains(s, substr)
    THEN CHOOSE i \in 1..(Len(s) - Len(substr) + 1) :
            /\ SubSeq(s, i, i + Len(substr) - 1) = substr
            /\ \A j \in 1..(i - 1) : SubSeq(s, j, j + Len(substr) - 1) # substr
    ELSE 0

\* strings.LastIndex, 1-based; 0 stands for Go's -1
LastIndex(s, substr) ==
    IF Contains(s, substr)
    THEN CHOOSE i \in 1..(Len(s) - Len(substr) + 1) :
            /\ SubSeq(s, i, i + Len(substr) - 1) = substr
            /\ \A j \in (i + 1)..(Len(s) - Len(substr) + 1) :
                  SubSeq(s, j, j + Len(substr) - 1) # substr
    ELSE 0

\* strings.Split for a non-empty separator: Split("", ",") is <<"">>
RECURSIVE Split(_, _)
Split(s, sep) ==
    LET i == Index(s, sep) IN
    IF i = 0 THEN <<s>>
    ELSE <<SubSeq(s, 1, i - 1)>> \o Split(SubSeq(s, i + Len(sep), Len(s)), sep)

\* unicode.IsSpace on the characters a TLA+ string can hold
IsSpace(c) == c \in {" ", "\t", "\n", "\r", "\f"}

RECURSIVE TrimLeft(_)
TrimLeft(s) ==
    IF s # "" /\ IsSpace(Char(s, 1)) THEN TrimLeft(SubSeq(s, 2, Len(s))) ELSE s

RECURSIVE TrimRight(_)
TrimRight(s) ==
    IF s # "" /\ IsSpace(Char(s, Len(s))) THEN TrimRight(SubSeq(s, 1, Len(s) - 1)) ELSE s

\* strings.TrimSpace
TrimSpace(s) == TrimRight(TrimLeft(s))

\* the length of the first field of a string that starts with a non-space
RECURSIVE FieldLen(_)
FieldLen(s) ==
    IF s = "" \/ IsSpace(Char(s, 1)) THEN 0 ELSE 1 + FieldLen(SubSeq(s, 2, Len(s)))

\* strings.Fields: the maximal runs of non-space characters, in order
RECURSIVE Fields(_)
Fields(s) ==
    LET t == TrimLeft(s) IN
    IF t = "" THEN <<>>
    ELSE LET n == FieldLen(t) IN
         <<SubSeq(t, 1, n)>> \o Fields(SubSeq(t, n + 1, Len(t)))

DecimalDigits == "0123456789"

IsDigit(c) == \E d \in 1..10 : Char(DecimalDigits, d) = c

DigitValue(c) == (CHOOSE d \in 1..10 : Char(DecimalDigits, d) = c) - 1

RECURSIVE ParseDigits(_)
ParseDigits(s) ==
    IF s = "" THEN 0
    ELSE 10 * ParseDigits(SubSeq(s, 1, Len(s) - 1)) + DigitValue(Char(s, Len(s)))

\* strconv.Atoi: an optional sign and one or more decimal digits.  The
\* inputs of the model are short, so the range error of Atoi never occurs.
Atoi(s) ==
    LET signed == s # "" /\ Char(s, 1) \in {"+", "-"}
        digits == IF signed THEN SubSeq(s, 2, Len(s)) ELSE s
        ok     == digits # "" /\ \A i \in 1..Len(digits) : IsDigit(Char(digits, i))
    IN  [ok  |-> ok,
         val |-> IF ~ok THEN 0
                 ELSE IF Char(s, 1) = "-" THEN 0 - ParseDigits(digits)
                 ELSE ParseDigits(digits)]

(***************************************************************************)
(* parseFlags                                                              *)
(***************************************************************************)
IsDetailFlag(arg) == arg = "-d" \/ arg = "--detail" \/ arg = "-detail"

IsIgnoreFlag(arg) == arg = "-i" \/ arg = "--ignore" \/ arg = "-ignore"

HasIgnorePrefix(arg) ==
    HasPrefix(arg, "-i=") \/ HasPrefix(arg, "--ignore=") \/ HasPrefix(arg, "-ignore=")

\* a faulty IgnoreValue: the option name and '=' are left on the value
IgnoreValueNoSlice(arg) == arg

\* value := arg[3:] / arg[9:] / arg[8:]
IgnoreValue(arg) ==
    IF HasPrefix(arg, "-i=") THEN SubSeq(arg, 4, Len(arg))
    ELSE IF HasPrefix(arg, "--ignore=") THEN SubSeq(arg, 10, Len(arg))
    ELSE SubSeq(arg, 9, Len(arg))

\* for _, p := range patterns { p = TrimSpace(p); if p != "" { append } }
RECURSIVE AppendPatterns(_, _)
AppendPatterns(ignorePats, pieces) ==
    IF pieces = <<>> THEN ignorePats
    ELSE LET p == TrimSpace(Head(pieces)) IN
         AppendPatterns(IF p # "" THEN Append(ignorePats, p) ELSE ignorePats,
                        Tail(pieces))

\* the loop of parseFlags from index i on; st holds the two package
\* variables and the slice being built
RECURSIVE parseFlagsLoop(_, _, _)
parseFlagsLoop(args, i, st) ==
    IF i > Len(args) THEN st
    ELSE LET arg == args[i] IN
         IF IsDetailFlag(arg)
         THEN parseFlagsLoop(args, i + 1, [st EXCEPT !.verbose = TRUE])
         ELSE IF IsIgnoreFlag(arg)
         THEN IF i + 1 <= Len(args)
              THEN parseFlagsLoop(args, i + 2,
                     [st EXCEPT !.ignorePatterns =
                                   AppendPatterns(@, Split(args[i + 1], ","))])
              ELSE parseFlagsLoop(args, i + 1, st)
         ELSE IF HasIgnorePrefix(arg)
         THEN parseFlagsLoop(args, i + 1,
                [st EXCEPT !.ignorePatterns =
                              AppendPatterns(@, Split(IgnoreValue(arg), ","))])
         ELSE parseFlagsLoop(args, i + 1,
                [st EXCEPT !.goTestArgs = Append(@, arg)])

parseFlags(args) ==
    parseFlagsLoop(args, 1,
                   [verbose |-> FALSE, ignorePatterns |-> <<>>, goTestArgs |-> <<>>])

(***************************************************************************)
(* package path/filepath (Unix): Clean, Dir, Join.                         *)
(***************************************************************************)
\* the elements Clean keeps: empty and "." elements are dropped, ".." takes
\* back the element before it, or is kept when the path is not rooted and
\* there is nothing to take back
RECURSIVE CleanElems(_, _, _)
CleanElems(elems, out, rooted) ==
    IF elems = <<>> THEN out
    ELSE LET e == Head(elems) IN
         IF e = "" \/ e = "." THEN CleanElems(Tail(elems), out, rooted)
         ELSE IF e = ".."
         THEN IF out # <<>> /\ out[Len(out)] # ".."
              THEN CleanElems(Tail(elems), SubSeq(out, 1, Len(out) - 1), rooted)
              ELSE IF ~rooted
              THEN CleanElems(Tail(elems), Append(out, e), rooted)
              ELSE CleanElems(Tail(elems), out, rooted)
         ELSE CleanElems(Tail(elems), Append(out, e), rooted)

RECURSIVE JoinElems(_)
JoinElems(elems) ==
    IF elems = <<>> THEN ""
    ELSE IF Len(elems) = 1 THEN elems[1]
    ELSE elems[1] \o "/" \o JoinElems(Tail(elems))

\* filepath.Clean
Clean(path) ==
    IF path = "" THEN "."
    ELSE LET rooted == Char(path, 1) = "/"
             body   == JoinElems(CleanElems(Split(path, "/"), <<>>, rooted))
         IN  IF rooted THEN "/" \o body
             ELSE IF body = "" THEN "." ELSE body

\* filepath.Dir: all but the last element of path, cleaned
Dir(path) == Clean(SubSeq(path, 1, LastIndex(path, "/")))

\* filepath.Join of a directory and a name, as filepath.Walk builds paths
Join(dir, name) == Clean(dir \o "/" \o name)

(***************************************************************************)
(* findGoPackages                                                          *)
(***************************************************************************)
\* The files and directories a tree of the model can hold, in the order in
\* which filepath.Walk visits them: each directory before its entries, the
\* entries of a directory in the lexical order of their names.  parent is
\* the index of the containing directory; 0 for the walk root.
Universe ==
    << [name |-> ".",         parent |-> 0,  isDir |-> TRUE],
       [name |-> ".git",      parent |-> 1,  isDir |-> TRUE],
       [name |-> "hooks",     parent |-> 2,  isDir |-> TRUE],
       [name |-> "h.go",      parent |-> 3,  isDir |-> FALSE],
       [name |-> "a.go",      parent |-> 1,  isDir |-> FALSE],
       [name |-> "a_test.go", parent |-> 1,  isDir |-> FALSE],
       [name |-> "docs",      parent |-> 1,  isDir |-> TRUE],
       [name |-> "r.md",      parent |-> 7,  isDir |-> FALSE],
       [name |-> "pb",        parent |-> 1,  isDir |-> TRUE],
       [name |-> "sub",       parent |-> 9,  isDir |-> TRUE],
       [name |-> "y.go",      parent |-> 10, isDir |-> FALSE],
       [name |-> "testdata",  parent |-> 9,  isDir |-> TRUE],
       [name |-> "f.go",      parent |-> 12, isDir |-> FALSE],
       [name |-> "x.go",      parent |-> 9,  isDir |-> FALSE],
       [name |-> "tst",       parent |-> 1,  isDir |-> TRUE],
       [name |-> "t_test.go", parent |-> 15, isDir |-> FALSE],
       [name |-> "vendor",    parent |-> 1,  isDir |-> TRUE],
       [name |-> "v.go",      parent |-> 17, isDir |-> FALSE] >>

Nodes == 1..Len(Universe)

\* the path filepath.Walk hands to the callback: the root as given, every
\* other entry as Join(path of its directory, name)
RECURSIVE PathOf(_)
PathOf(k) ==
    IF Universe[k].parent = 0 THEN Universe[k].name
    ELSE Join(PathOf(Universe[k].parent), Universe[k].name)

\* shouldIgnore is called by findGoPackages and is not among the source
\* files; the usage text says "Ignore packages containing" a pattern
shouldIgnore(path, ignorePats) ==
    \E j \in 1..Len(ignorePats) : Contains(path, ignorePats[j])

\* "./." for the root, "./"+dir for every other directory
PackagePath(dir) == IF dir = "." THEN "./." ELSE "./" \o dir

\* a faulty walkFn: the seen map is not consulted
walkFnNoSeen(path, name, isDir, ignorePats, w) ==
    IF ~isDir /\ HasSuffix(path, ".go") /\ ~shouldIgnore(Dir(path), ignorePats)
    THEN [skipDir |-> FALSE,
          w |-> [w EXCEPT !.seen = @ \cup {Dir(path)},
                          !.packages = Append(@, PackagePath(Dir(path)))]]
    ELSE [skipDir |-> isDir /\ (\/ HasPrefix(name, ".") /\ name # "."
                                \/ name = "vendor" \/ name = "testdata"
                                \/ shouldIgnore(path, ignorePats)),
          w |-> w]

\* a faulty walkFn: hidden, vendor and testdata directories are walked
walkFnNoPrune(path, name, isDir, ignorePats, w) ==
    IF isDir
    THEN [skipDir |-> shouldIgnore(path, ignorePats), w |-> w]
    ELSE IF HasSuffix(path, ".go")
    THEN LET dir == Dir(path) IN
         IF dir \notin w.seen /\ ~shouldIgnore(dir, ignorePats)
         THEN [skipDir |-> FALSE,
               w |-> [w EXCEPT !.seen = @ \cup {dir},
                               !.packages = Append(@, PackagePath(dir))]]
         ELSE [skipDir |-> FALSE, w |-> w]
    ELSE [skipDir |-> FALSE, w |-> w]

\* a faulty walkFn: the ignore patterns are not consulted
walkFnNoIgnore(path, name, isDir, ignorePats, w) ==
    IF isDir
    THEN [skipDir |-> \/ HasPrefix(name, ".") /\ name # "."
                      \/ name = "vendor" \/ name = "testdata",
          w |-> w]
    ELSE IF HasSuffix(path, ".go")
    THEN LET dir == Dir(path) IN
         IF dir \notin w.seen
         THEN [skipDir |-> FALSE,
               w |-> [w EXCEPT !.seen = @ \cup {dir},
                               !.packages = Append(@, PackagePath(dir))]]
         ELSE [skipDir |-> FALSE, w |-> w]
    ELSE [skipDir |-> FALSE, w |-> w]

\* the callback findGoPackages gives to filepath.Walk, for an entry whose
\* lstat succeeded; w holds seen and packages
walkFn(path, name, isDir, ignorePats, w) ==
    IF isDir
    THEN IF \/ HasPrefix(name, ".") /\ name # "."
            \/ name = "vendor" \/ name = "testdata"
         THEN [skipDir |-> TRUE, w |-> w]
         ELSE IF shouldIgnore(path, ignorePats)
         THEN [skipDir |-> TRUE, w |-> w]
         ELSE [skipDir |-> FALSE, w |-> w]
    ELSE IF HasSuffix(path, ".go")
    THEN LET dir == Dir(path) IN
         IF dir \notin w.seen /\ ~shouldIgnore(dir, ignorePats)
         THEN [skipDir |-> FALSE,
               w |-> [w EXCEPT !.seen = @ \cup {dir},
                               !.packages = Append(@, PackagePath(dir))]]
         ELSE [skipDir |-> FALSE, w |-> w]
    ELSE [skipDir |-> FALSE, w |-> w]

\* filepath.Walk over the entries of tree from index k on.  closed holds
\* the entries whose subtree is not walked: the ones that are not in the
\* tree, the directories for which the callback returned SkipDir, and
\* everything below either.
RECURSIVE WalkFrom(_, _, _, _, _)
WalkFrom(tree, k, ignorePats, closed, w) ==
    IF k > Len(Universe) THEN w
    ELSE IF k \notin tree \/ Universe[k].parent \in closed
    THEN WalkFrom(tree, k + 1, ignorePats, closed \cup {k}, w)
    ELSE LET r == walkFn(PathOf(k), Universe[k].name, Universe[k].isDir,
                         ignorePats, w)
         IN  WalkFrom(tree, k + 1, ignorePats,
                      IF r.skipDir THEN closed \cup {k} ELSE closed, r.w)

\* findGoPackages(".") when no lstat and no directory read fails
findGoPackages(tree, ignorePats) ==
    WalkFrom(tree, 1, ignorePats, {}, [seen |-> {}, packages |-> <<>>]).packages

(***************************************************************************)
(* displayCoverageStats                                                    *)
(***************************************************************************)
\* One line of the profile as the scanner loop reads it: use is FALSE when
\* the loop continues without touching packageStats.
NoEntry == [use |-> FALSE, pkgPath |-> "", numStatements |-> 0, count |-> 0]

\* a faulty coverageLine: lines that begin with "mode:" are not skipped
coverageLineNoModeSkip(line) ==
    LET parts == Fields(line) IN
    IF Len(parts) # 3 \/ LastIndex(parts[1], ":") = 0
       \/ ~Atoi(parts[2]).ok \/ ~Atoi(parts[3]).ok
    THEN NoEntry
    ELSE [use |-> TRUE,
          pkgPath |-> Dir(SubSeq(parts[1], 1, LastIndex(parts[1], ":") - 1)),
          numStatements |-> Atoi(parts[2]).val,
          count |-> Atoi(parts[3]).val]

\* the body of the scanner loop up to the two strconv.Atoi calls
coverageLine(line) ==
    IF HasPrefix(line, "mode:") THEN NoEntry
    ELSE LET parts == Fields(line) IN
         IF Len(parts) # 3 THEN NoEntry
         ELSE LET filePart == parts[1]
                  colonIdx == LastIndex(filePart, ":")
              IN  IF colonIdx = 0 THEN NoEntry
                  ELSE LET filePath      == SubSeq(filePart, 1, colonIdx - 1)
                           pkgPath       == Dir(filePath)
                           numStatements == Atoi(parts[2])
                           count         == Atoi(parts[3])
                       IN  IF ~numStatements.ok THEN NoEntry
                           ELSE IF ~count.ok THEN NoEntry
                           ELSE [use |-> TRUE, pkgPath |-> pkgPath,
                                 numStatements |-> numStatements.val,
                                 count |-> count.val]

\* a faulty addStatements: statements count as covered whatever the count
addStatementsCountAll(stats, e) ==
    LET old == IF e.pkgPath \in DOMAIN stats THEN stats[e.pkgPath]
               ELSE [TotalStatements |-> 0, CoveredStatements |-> 0]
    IN  [p \in DOMAIN stats \cup {e.pkgPath} |->
            IF p = e.pkgPath
            THEN [TotalStatements   |-> old.TotalStatements + e.numStatements,
                  CoveredStatements |-> old.CoveredStatements + e.numStatements]
            ELSE stats[p]]

\* packageStats after the accounting of one used line
addStatements(stats, e) ==
    LET old == IF e.pkgPath \in DOMAIN stats THEN stats[e.pkgPath]
               ELSE [TotalStatements |-> 0, CoveredStatements |-> 0]
    IN  [p \in DOMAIN stats \cup {e.pkgPath} |->
            IF p = e.pkgPath
            THEN [TotalStatements   |-> old.TotalStatements + e.numStatements,
                  CoveredStatements |-> IF e.count > 0
                                        THEN old.CoveredStatements + e.numStatements
                                        ELSE old.CoveredStatements]
            ELSE stats[p]]

\* the scanner loop from line k on
RECURSIVE scanLines(_, _, _)
scanLines(lines, k, stats) ==
    IF k > Len(lines) THEN stats
    ELSE LET e == coverageLine(lines[k]) IN
         scanLines(lines, k + 1, IF e.use THEN addStatements(stats, e) ELSE stats)

\* the empty map made by make(map[string]*CoverageStats)
EmptyStats == [p \in {} |-> [TotalStatements |-> 0, CoveredStatements |-> 0]]

\* a faulty sumStats: totalCovered adds up TotalStatements as well
RECURSIVE sumStatsTotalTwice(_, _)
sumStatsTotalTwice(stats, pkgs) ==
    IF pkgs = {} THEN [totalStatements |-> 0, totalCovered |-> 0]
    ELSE LET p    == CHOOSE q \in pkgs : TRUE
             rest == sumStatsTotalTwice(stats, pkgs \ {p})
         IN  [totalStatements |-> rest.totalStatements + stats[p].TotalStatements,
              totalCovered    |-> rest.totalCovered + stats[p].TotalStatements]

\* the loop over the sorted package names that adds up the two totals
RECURSIVE sumStats(_, _)
sumStats(stats, pkgs) ==
    IF pkgs = {} THEN [totalStatements |-> 0, totalCovered |-> 0]
    ELSE LET p    == CHOOSE q \in pkgs : TRUE
             rest == sumStats(stats, pkgs \ {p})
         IN  [totalStatements |-> rest.totalStatements + stats[p].TotalStatements,
              totalCovered    |-> rest.totalCovered + stats[p].CoveredStatements]

\* var totalCoverage float64; if totalStatements > 0 { totalCoverage =
\* float64(totalCovered) / float64(totalStatements) * 100 }.  The value is
\* kept as the fraction num/den; the rounding of the float64 division and
\* of the %.1f verb is not modelled.
totalCoverage(totals) ==
    IF totals.totalStatements > 0
    THEN [num |-> totals.totalCovered * 100, den |-> totals.totalStatements]
    ELSE [num |-> 0, den |-> 1]

\* what displayCoverageStats leaves and prints for a profile it could open:
\* "No coverage data found" and nothing else for an empty map, otherwise
\* the table with the TOTAL row and the "Statements: c/t covered" line
displayCoverageStats(lines) ==
    LET stats  == scanLines(lines, 1, EmptyStats)
        totals == sumStats(stats, DOMAIN stats)
    IN  [packageStats  |-> stats,
         printed       |-> IF DOMAIN stats = {} THEN "No coverage data found"
                           ELSE "table",
         totals        |-> totals,
         totalCoverage |-> totalCoverage(totals)]

(***************************************************************************)
(* The program: one invocation of main.                                    *)
(*                                                                         *)
(* argv, tree, coverFile and env are what the invocation finds: the        *)
(* command line, the directory tree below ".", /tmp/cover.out as an        *)
(* earlier invocation left it, and what the operating system and the go    *)
(* command will answer.  The other variables are the package variables    *)
(* verbose and ignorePatterns, the locals of main and run, and what the    *)
(* process has printed and started.                                        *)
(***************************************************************************)
VARIABLES argv, tree, coverFile, env, pc, verbose, ignorePatterns, goTestArgs,
          packages, goCmd, testErr, summary, htmlGenerated, browserOpened,
          runErr, exitCode, stdout

vars == <<argv, tree, coverFile, env, pc, verbose, ignorePatterns, goTestArgs,
          packages, goCmd, testErr, summary, htmlGenerated, browserOpened,
          runErr, exitCode, stdout>>

coverProfile == "/tmp/cover.out"

NoFile == [exists |-> FALSE, lines |-> <<>>]

File(lines) == [exists |-> TRUE, lines |-> lines]

NoSummary ==
    [called |-> FALSE, err |-> FALSE, packageStats |-> EmptyStats,
     printed |-> "", totals |-> [totalStatements |-> 0, totalCovered |-> 0],
     totalCoverage |-> [num |-> 0, den |-> 1]]

\* a faulty IsHelpFlag: -help is not taken as a help flag
IsHelpFlagNoSingleDash(arg) == arg = "-h" \/ arg = "--help"

\* main: arg == "-h" || arg == "--help" || arg == "-help"
IsHelpFlag(arg) == arg = "-h" \/ arg = "--help" \/ arg = "-help"

\* all sequences over S of length at most n
BoundedSeq(S, n) == UNION {[1..m -> S] : m \in 0..n}

(***************************************************************************)
(* Inputs.                                                                 *)
(***************************************************************************)
\* a tree is a set of entries that holds the root and, with an entry, the
\* directory it is in
IsTree(t) ==
    /\ 1 \in t
    /\ \A k \in t : Universe[k].parent = 0 \/ Universe[k].parent \in t

Trees(n) == {t \in SUBSET Nodes : IsTree(t) /\ Cardinality(t) <= n + 1}

\* the root with a.go in it
OnePackageTree == {1, 5}

ProfileOfRun == <<"mode: atomic", "a/x.go:1.1,2.2 2 1", "a/y.go:3.1,4.2 3 0">>

StaleProfile == <<"mode: set", "old/o.go:1.1,9.2 7 1">>

EnvOK ==
    [walkErr |-> FALSE, testErr |-> FALSE, profile |-> File(ProfileOfRun),
     openErr |-> FALSE, htmlErr |-> FALSE, browserErr |-> FALSE]

Envs ==
    [walkErr : BOOLEAN, testErr : BOOLEAN, profile : {NoFile, File(ProfileOfRun)},
     openErr : BOOLEAN, htmlErr : BOOLEAN, browserErr : BOOLEAN]

ArgTokens ==
    {"-d", "--detail", "-detail", "-i", "--ignore", "-ignore",
     "-i=pb", "--ignore= a ,,b", "-ignore=x,", "-h", "--help", "-help",
     "-v", "pb,, ex "}

WalkArgvs ==
    {<<>>, <<"-i", "pb">>, <<"--ignore=sub,tst">>, <<"-i", "s">>,
     <<"-ignore", ".">>, <<"-i=b/s">>}

ProfileLines ==
    {"mode: atomic",
     "mode:a/x.go:1.1,2.2 3 1",
     "a/x.go:1.1,2.2 2 1",
     "a/y.go:3.1,4.2 3 0",
     "b/c/z.go:1.1,1.9 1 5",
     "x.go:1.1,2.2 4 1",
     "a/x.go:5.1,6.2 two 1",
     "a/x.go 1 1",
     "a/x.go:7.1,8.2 1 1 extra",
     " a//w.go:1.1,2.2\t1  -1",
     "n/q.go:1.1,1.2 -2 1",
     ""}

InitWith(args, t, file, e) ==
    /\ argv = args
    /\ tree = t
    /\ coverFile = file
    /\ env = e
    /\ pc = "main"
    /\ verbose = FALSE
    /\ ignorePatterns = <<>>
    /\ goTestArgs = <<>>
    /\ packages = <<>>
    /\ goCmd = <<>>
    /\ testErr = FALSE
    /\ summary = NoSummary
    /\ htmlGenerated = FALSE
    /\ browserOpened = FALSE
    /\ runErr = ""
    /\ exitCode = 0
    /\ stdout = <<>>

\* every answer of the environment, on a few command lines and trees
Init ==
    \E args \in {<<>>, <<"-d">>, <<"--help">>}, t \in {{1}, OnePackageTree},
       file \in {NoFile, File(StaleProfile)}, e \in Envs :
        InitWith(args, t, file, e)

\* the same, for an invocation that finds no profile of an earlier one
InitFresh == Init /\ ~coverFile.exists

\* every command line of at most MaxArgs arguments
InitFlags ==
    \E args \in BoundedSeq(ArgTokens, MaxArgs) :
        InitWith(args, OnePackageTree, NoFile, EnvOK)

\* every tree of at most MaxNodes entries below the root
InitWalk ==
    \E args \in WalkArgvs, t \in Trees(MaxNodes) :
        InitWith(args, t, NoFile, EnvOK)

\* every profile of at most MaxLines lines
InitCover ==
    \E lines \in BoundedSeq(ProfileLines, MaxLines) :
        InitWith(<<>>, OnePackageTree, NoFile, [EnvOK EXCEPT !.profile = File(lines)])

(***************************************************************************)
(* Actions.                                                                *)
(***************************************************************************)
\* a faulty Exit: the process ends with status 0 whatever run returned
ExitStatusZero(code, err) ==
    /\ pc' = "exit"
    /\ exitCode' = 0
    /\ runErr' = err

\* main: return after printUsage or after run returned nil; os.Exit(1)
\* after run returned an error
Exit(code, err) ==
    /\ pc' = "exit"
    /\ exitCode' = code
    /\ runErr' = err

\* main: args := parseFlags(os.Args[1:])
ParseFlags ==
    /\ pc = "main"
    /\ LET r == parseFlags(argv) IN
        /\ verbose' = r.verbose
        /\ ignorePatterns' = r.ignorePatterns
        /\ goTestArgs' = r.goTestArgs
    /\ pc' = "help"
    /\ UNCHANGED <<argv, tree, coverFile, env, packages, goCmd, testErr, summary,
                   htmlGenerated, browserOpened, runErr, exitCode, stdout>>

\* main: a help flag among args prints the usage and returns
PrintUsage ==
    /\ pc = "help"
    /\ \E i \in 1..Len(goTestArgs) : IsHelpFlag(goTestArgs[i])
    /\ stdout' = Append(stdout, "usage")
    /\ Exit(0, "")
    /\ UNCHANGED <<argv, tree, coverFile, env, verbose, ignorePatterns, goTestArgs,
                   packages, goCmd, testErr, summary, htmlGenerated, browserOpened>>

\* main calls run; run: packages, err := findGoPackages(".")
FindPackages ==
    /\ pc = "help"
    /\ ~\E i \in 1..Len(goTestArgs) : IsHelpFlag(goTestArgs[i])
    /\ \/ /\ env.walkErr
          /\ Exit(1, "finding go packages")
          /\ UNCHANGED packages
       \/ /\ ~env.walkErr
          /\ packages' = findGoPackages(tree, ignorePatterns)
          /\ pc' = "packages"
          /\ UNCHANGED <<exitCode, runErr>>
    /\ UNCHANGED <<argv, tree, coverFile, env, verbose, ignorePatterns, goTestArgs,
                   goCmd, testErr, summary, htmlGenerated, browserOpened, stdout>>

\* run: if len(packages) == 0
NoPackages ==
    /\ pc = "packages"
    /\ packages = <<>>
    /\ stdout' = Append(stdout, "No Go packages found")
    /\ Exit(0, "")
    /\ UNCHANGED <<argv, tree, coverFile, env, verbose, ignorePatterns, goTestArgs,
                   packages, goCmd, testErr, summary, htmlGenerated, browserOpened>>

\* a faulty goTestCommand: the packages come before the user's arguments
goTestCommandPackagesFirst(userArgs, pkgs) ==
    <<"test", "-coverprofile=" \o coverProfile, "-covermode=atomic">>
        \o pkgs \o userArgs

\* the argument list of exec.Command("go", args...)
goTestCommand(userArgs, pkgs) ==
    <<"test", "-coverprofile=" \o coverProfile, "-covermode=atomic">>
        \o userArgs \o pkgs

\* run: build the command, run it, report the result of the tests.  The go
\* command leaves the profile it writes at coverProfile; when it writes
\* none, the file stays as it was.
GoTest ==
    /\ pc = "packages"
    /\ packages # <<>>
    /\ goCmd' = goTestCommand(goTestArgs, packages)
    /\ testErr' = env.testErr
    /\ coverFile' = IF env.profile.exists THEN env.profile ELSE coverFile
    /\ stdout' = Append(stdout, IF env.testErr THEN "Tests failed" ELSE "All tests passed")
    /\ pc' = "stat"
    /\ UNCHANGED <<argv, tree, env, verbose, ignorePatterns, goTestArgs, packages,
                   summary, htmlGenerated, browserOpened, runErr, exitCode>>

\* run: os.Stat(coverProfile) says the file does not exist
ProfileMissing ==
    /\ pc = "stat"
    /\ ~coverFile.exists
    /\ Exit(1, "coverage profile not generated")
    /\ UNCHANGED <<argv, tree, coverFile, env, verbose, ignorePatterns, goTestArgs,
                   packages, goCmd, testErr, summary, htmlGenerated, browserOpened,
                   stdout>>

\* a faulty DisplayStats: an error of displayCoverageStats ends the run
DisplayStatsErrorFatal ==
    /\ pc = "stat"
    /\ coverFile.exists
    /\ \/ /\ env.openErr
          /\ summary' = [NoSummary EXCEPT !.called = TRUE, !.err = TRUE]
          /\ stdout' = Append(stdout, "COVERAGE SUMMARY")
          /\ Exit(1, "parsing coverage stats")
       \/ /\ ~env.openErr
          /\ LET r == displayCoverageStats(coverFile.lines) IN
                summary' = [called |-> TRUE, err |-> FALSE,
                            packageStats |-> r.packageStats,
                            printed |-> r.printed, totals |-> r.totals,
                            totalCoverage |-> r.totalCoverage]
          /\ stdout' = Append(stdout, "COVERAGE SUMMARY")
          /\ pc' = "html"
          /\ UNCHANGED <<runErr, exitCode>>
    /\ UNCHANGED <<argv, tree, coverFile, env, verbose, ignorePatterns, goTestArgs,
                   packages, goCmd, testErr, htmlGenerated, browserOpened>>

\* run: the summary; an error of displayCoverageStats is only a warning
DisplayStats ==
    /\ pc = "stat"
    /\ coverFile.exists
    /\ \/ /\ env.openErr
          /\ summary' = [NoSummary EXCEPT !.called = TRUE, !.err = TRUE]
          /\ stdout' = stdout \o <<"COVERAGE SUMMARY",
                                   "Warning: could not parse coverage stats">>
       \/ /\ ~env.openErr
          /\ LET r == displayCoverageStats(coverFile.lines) IN
                summary' = [called |-> TRUE, err |-> FALSE,
                            packageStats |-> r.packageStats,
                            printed |-> r.printed, totals |-> r.totals,
                            totalCoverage |-> r.totalCoverage]
          /\ stdout' = Append(stdout, "COVERAGE SUMMARY")
    /\ pc' = "html"
    /\ UNCHANGED <<argv, tree, coverFile, env, verbose, ignorePatterns, goTestArgs,
                   packages, goCmd, testErr, htmlGenerated, browserOpened, runErr,
                   exitCode>>

\* run: go tool cover -html
GenerateHTML ==
    /\ pc = "html"
    /\ \/ /\ env.htmlErr
          /\ Exit(1, "generating coverage HTML")
          /\ UNCHANGED htmlGenerated
       \/ /\ ~env.htmlErr
          /\ htmlGenerated' = TRUE
          /\ pc' = "open"
          /\ UNCHANGED <<exitCode, runErr>>
    /\ UNCHANGED <<argv, tree, coverFile, env, verbose, ignorePatterns, goTestArgs,
                   packages, goCmd, testErr, summary, browserOpened, stdout>>

\* run: openBrowser(coverHTML), then return nil
OpenBrowser ==
    /\ pc = "open"
    /\ stdout' = Append(stdout, "Opening /tmp/cover.html in browser...")
    /\ \/ /\ env.browserErr
          /\ Exit(1, "opening browser")
          /\ UNCHANGED browserOpened
       \/ /\ ~env.browserErr
          /\ browserOpened' = TRUE
          /\ Exit(0, "")
    /\ UNCHANGED <<argv, tree, coverFile, env, verbose, ignorePatterns, goTestArgs,
                   packages, goCmd, testErr, summary, htmlGenerated>>

Next ==
    \/ ParseFlags
    \/ PrintUsage
    \/ FindPackages
    \/ NoPackages
    \/ GoTest
    \/ ProfileMissing
    \/ DisplayStats
    \/ GenerateHTML
    \/ OpenBrowser

Spec == Init /\ [][Next]_vars

SpecFresh == InitFresh /\ [][Next]_vars

SpecFlags == (Init \/ InitFlags) /\ [][Next]_vars

SpecWalk == (Init \/ InitWalk) /\ [][Next]_vars

SpecCover == (Init \/ InitCover) /\ [][Next]_vars

(***************************************************************************)
(* Properties.                                                             *)
(***************************************************************************)
\* ---- the coverage profile, line by line, as the specification words it
\* three whitespace-separated fields, a ':' in the first, integers second
\* and third
WellFormedLine(line) ==
    LET f == Fields(line) IN
    /\ Len(f) = 3
    /\ Contains(f[1], ":")
    /\ Atoi(f[2]).ok
    /\ Atoi(f[3]).ok

\* the directory of the file path: the first field up to its last ':'
LinePackage(line) ==
    LET f == Fields(line)[1] IN Dir(SubSeq(f, 1, LastIndex(f, ":") - 1))

LineStatements(line) == Atoi(Fields(line)[2]).val

LineCount(line) == Atoi(Fields(line)[3]).val

\* the sum of numStatements over the lines with an index in idx
RECURSIVE SumStatements(_, _)
SumStatements(lines, idx) ==
    IF idx = {} THEN 0
    ELSE LET k == CHOOSE j \in idx : TRUE IN
         LineStatements(lines[k]) + SumStatements(lines, idx \ {k})

\* packageStats is the per-directory sum over the lines with an index in used
StatsAreSumsOver(stats, lines, used) ==
    LET pkgs == {LinePackage(lines[k]) : k \in used} IN
    /\ DOMAIN stats = pkgs
    /\ \A P \in pkgs :
          LET of == {k \in used : LinePackage(lines[k]) = P} IN
          /\ stats[P].TotalStatements = SumStatements(lines, of)
          /\ stats[P].CoveredStatements =
                SumStatements(lines, {k \in of : LineCount(lines[k]) > 0})

SummaryRead == summary.called /\ ~summary.err

\* C1 as stated: after displayCoverageStats has read the profile, each
\* package directory's TotalStatements is the sum of numStatements over
\* all well-formed lines of that directory, CoveredStatements the same sum
\* over the lines with count > 0, and exactly the directories of
\* well-formed lines have an entry.
C1_AllWellFormedLinesCounted ==
    SummaryRead =>
        StatsAreSumsOver(summary.packageStats, coverFile.lines,
            {k \in 1..Len(coverFile.lines) : WellFormedLine(coverFile.lines[k])})

\* C1 amended: the same, over the well-formed lines that do not begin
\* with "mode:" (such a line is skipped before it is split into fields).
C1_LinesOtherThanModeCounted ==
    SummaryRead =>
        StatsAreSumsOver(summary.packageStats, coverFile.lines,
            {k \in 1..Len(coverFile.lines) :
                /\ WellFormedLine(coverFile.lines[k])
                /\ ~HasPrefix(coverFile.lines[k], "mode:")})

\* a profile has been read that holds a well-formed line beginning with
\* "mode:" and a package with covered and with uncovered statements
C1_Witness ==
    /\ SummaryRead
    /\ \E k \in 1..Len(coverFile.lines) :
          WellFormedLine(coverFile.lines[k]) /\ HasPrefix(coverFile.lines[k], "mode:")
    /\ \E P \in DOMAIN summary.packageStats :
          /\ summary.packageStats[P].CoveredStatements > 0
          /\ summary.packageStats[P].TotalStatements >
                summary.packageStats[P].CoveredStatements

\* ---- the directory tree, as the specification words it
PackagesFound == pc \in {"packages", "stat", "html", "open"} \/ goCmd # <<>>

PackageSet == {packages[i] : i \in 1..Len(packages)}

RECURSIVE SelfAndAbove(_)
SelfAndAbove(k) ==
    IF Universe[k].parent = 0 THEN {k} ELSE {k} \cup SelfAndAbove(Universe[k].parent)

Directories == {k \in tree : Universe[k].isDir}

\* a hidden directory other than the walk root, vendor, or testdata
SkippedName(name) ==
    (HasPrefix(name, ".") /\ name # ".") \/ name = "vendor" \/ name = "testdata"

\* the directory is, or lies beneath, a directory with a skipped name
InSkippedSubtree(k) == \E a \in SelfAndAbove(k) : SkippedName(Universe[a].name)

\* the directory, or a directory above it, matches an ignore pattern
InIgnoredSubtree(k) ==
    \E a \in SelfAndAbove(k) : shouldIgnore(PathOf(a), ignorePatterns)

\* the .go files directly in directory k
GoFilesIn(k) ==
    {f \in tree : /\ ~Universe[f].isDir
                  /\ Universe[f].parent = k
                  /\ HasSuffix(Universe[f].name, ".go")}

\* C2: the list findGoPackages returns holds each directory at most once.
C2_PackagesUnique ==
    PackagesFound =>
        \A i, j \in 1..Len(packages) : packages[i] = packages[j] => i = j

\* a directory with two .go files has been returned
C2_Witness ==
    /\ PackagesFound
    /\ \E k \in Directories :
          /\ Cardinality(GoFilesIn(k)) >= 2
          /\ PackagePath(PathOf(k)) \in PackageSet

\* C3: no returned package is, or lies beneath, a directory named vendor
\* or testdata or a directory whose name starts with '.', the walk root
\* excepted: no element of a returned path has such a name, and no
\* directory of the tree in such a subtree is returned.
C3_NoSkippedDirectoryReturned ==
    PackagesFound =>
        /\ \A p \in PackageSet :
              \A e \in {Split(p, "/")[i] : i \in 1..Len(Split(p, "/"))} :
                 ~SkippedName(e)
        /\ \A k \in Directories :
              InSkippedSubtree(k) => PackagePath(PathOf(k)) \notin PackageSet

\* the walk has met .go files two levels below a hidden directory or below
\* a testdata directory, and has returned another directory
C3_Witness ==
    /\ PackagesFound
    /\ \E f \in tree : /\ GoFilesIn(Universe[f].parent) # {}
                       /\ Universe[f].parent # 0
                       /\ InSkippedSubtree(Universe[f].parent)
                       /\ Cardinality(SelfAndAbove(f)) >= 4
    /\ packages # <<>>

\* C4: no directory that matches an ignore pattern, and no directory below
\* one, is returned; with no ignore pattern every directory outside the
\* skipped subtrees that holds a .go file is returned.
C4_NoIgnoredDirectoryReturned ==
    PackagesFound =>
        /\ \A k \in Directories :
              InIgnoredSubtree(k) => PackagePath(PathOf(k)) \notin PackageSet
        /\ ignorePatterns = <<>> =>
              \A k \in Directories :
                 (GoFilesIn(k) # {} /\ ~InSkippedSubtree(k))
                    => PackagePath(PathOf(k)) \in PackageSet

\* a directory that matches a pattern holds a subdirectory with a .go file,
\* none of the two is returned, and a directory outside it is
C4_Witness ==
    /\ PackagesFound
    /\ ignorePatterns # <<>>
    /\ \E k \in Directories :
          /\ Universe[k].parent # 0
          /\ shouldIgnore(PathOf(Universe[k].parent), ignorePatterns)
          /\ ~InSkippedSubtree(k)
          /\ GoFilesIn(k) # {}
          /\ PackagePath(PathOf(k)) \notin PackageSet
    /\ packages # <<>>

\* the .go files of directory k are all test files
OnlyTestFiles(k) == \A f \in GoFilesIn(k) : HasSuffix(Universe[f].name, "_test.go")

\* C10: findGoPackages returns exactly the directories outside the skipped
\* and ignored subtrees that directly hold a .go file, the directories
\* whose only .go files are test files excluded.
C10_TestOnlyDirectoriesExcluded ==
    PackagesFound =>
        PackageSet =
            {PackagePath(PathOf(k)) :
                k \in {d \in Directories :
                          /\ ~InSkippedSubtree(d)
                          /\ ~InIgnoredSubtree(d)
                          /\ GoFilesIn(d) # {}
                          /\ ~OnlyTestFiles(d)}}

\* ---- the command line, position by position
\* argument i is taken as the value of a two-argument ignore option: the
\* argument before it is -i, --ignore or -ignore and is not itself a value
RECURSIVE IsValueAt(_, _)
IsValueAt(args, i) ==
    i > 1 /\ args[i - 1] \in {"-i", "--ignore", "-ignore"} /\ ~IsValueAt(args, i - 1)

\* argument i is one of gotest's own flags, or the value of one
OwnArgumentAt(args, i) ==
    \/ IsValueAt(args, i)
    \/ args[i] \in {"-d", "--detail", "-detail", "-i", "--ignore", "-ignore"}
    \/ \E prefix \in {"-i=", "--ignore=", "-ignore="} : HasPrefix(args[i], prefix)

\* the arguments from position i on that are not gotest's own, in order
RECURSIVE OtherArguments(_, _)
OtherArguments(args, i) ==
    IF i > Len(args) THEN <<>>
    ELSE IF OwnArgumentAt(args, i) THEN OtherArguments(args, i + 1)
    ELSE <<args[i]>> \o OtherArguments(args, i + 1)

FlagsParsed == pc # "main"

\* C6: parseFlags returns exactly the arguments that are not gotest's own
\* flags, in order and unmodified, and run hands them to go test after
\* "test", -coverprofile and -covermode and before the packages.
C6_OtherArgumentsPassedThrough ==
    FlagsParsed =>
        /\ goTestArgs = OtherArguments(argv, 1)
        /\ goCmd # <<>> =>
              goCmd = <<"test", "-coverprofile=/tmp/cover.out", "-covermode=atomic">>
                         \o OtherArguments(argv, 1) \o packages

\* go test has been started for a command line that holds an ignore option
\* with its value, and an argument that is passed through
C6_Witness ==
    /\ goCmd # <<>>
    /\ \E i \in 1..Len(argv) : IsValueAt(argv, i)
    /\ goTestArgs # <<>>
    /\ packages # <<>>

\* argv with the two arguments at k and k+1 written as one, with '='
WithEquals(args, k) ==
    SubSeq(args, 1, k - 1) \o <<args[k] \o "=" \o args[k + 1]>>
        \o SubSeq(args, k + 2, Len(args))

SameAsParsed(args) ==
    /\ parseFlags(args).ignorePatterns = ignorePatterns
    /\ parseFlags(args).goTestArgs = goTestArgs

\* C7 as stated: wherever -i, --ignore or -ignore stands before another
\* argument, writing the two as one argument with '=' leaves parseFlags
\* with the same ignore patterns and the same remaining arguments.
C7_EqualsFormSameAnywhere ==
    FlagsParsed =>
        \A k \in 1..(Len(argv) - 1) :
            argv[k] \in {"-i", "--ignore", "-ignore"} => SameAsParsed(WithEquals(argv, k))

\* C7 amended: the same, where the option is not itself taken as the value
\* of an ignore option before it.
C7_EqualsFormSameForOptions ==
    FlagsParsed =>
        \A k \in 1..(Len(argv) - 1) :
            (argv[k] \in {"-i", "--ignore", "-ignore"} /\ ~IsValueAt(argv, k))
                => SameAsParsed(WithEquals(argv, k))

\* an ignore option with a value of several pieces, one empty and one with
\* blanks around it, between other arguments
C7_Witness ==
    /\ FlagsParsed
    /\ Len(argv) = 3
    /\ argv[2] \in {"-i", "--ignore", "-ignore"}
    /\ ~IsValueAt(argv, 2)
    /\ ignorePatterns = <<"pb", "ex">>
    /\ goTestArgs # <<>>

HelpWords == {"-h", "--help", "-help"}

\* only the usage message: no package discovery, no go test, no report
OnlyUsage ==
    /\ pc \in {"main", "help", "exit"}
    /\ pc = "exit" => stdout = <<"usage">> /\ exitCode = 0 /\ runErr = ""
    /\ packages = <<>>
    /\ goCmd = <<>>
    /\ ~summary.called
    /\ ~htmlGenerated
    /\ ~browserOpened

\* C8 as stated: with -h, --help or -help at any position of the command
\* line the program prints the usage message and does nothing else.
C8_HelpAnywhere ==
    (\E i \in 1..Len(argv) : argv[i] \in HelpWords) => OnlyUsage

\* C8 amended: with -h, --help or -help at a position where it is not
\* taken as the value of an ignore option.
C8_HelpNotAsValue ==
    (\E i \in 1..Len(argv) : argv[i] \in HelpWords /\ ~IsValueAt(argv, i)) => OnlyUsage

\* the usage message has been printed for a help flag that follows an
\* ignore option and its value
C8_Witness ==
    /\ pc = "exit"
    /\ stdout = <<"usage">>
    /\ \E i \in 3..Len(argv) :
          argv[i] \in HelpWords /\ IsValueAt(argv, i - 1)

\* ---- the steps of run and their failures
RunCalled == pc \notin {"main", "help"} /\ stdout # <<"usage">>

GoTestInvoked == goCmd # <<>>

DiscoveryFailed == RunCalled /\ env.walkErr

TestRunnerFailed == GoTestInvoked /\ testErr

ProfileAbsent == GoTestInvoked /\ ~coverFile.exists

HTMLFailed == summary.called /\ pc \in {"open", "exit"} /\ env.htmlErr

OpenFailed == htmlGenerated /\ pc = "exit" /\ env.browserErr

ExitedWith(err) == exitCode = 1 /\ runErr = err

\* C5 as stated: when package discovery, the test runner, the presence of
\* the profile, the HTML generation or the opening of the report fails, the
\* error comes out of run and the process exits with a non-zero status.
C5_EveryFailureExitsNonZero ==
    pc = "exit" =>
        /\ DiscoveryFailed => ExitedWith("finding go packages")
        /\ TestRunnerFailed => exitCode = 1 /\ runErr # ""
        /\ ProfileAbsent => ExitedWith("coverage profile not generated")
        /\ HTMLFailed => ExitedWith("generating coverage HTML")
        /\ OpenFailed => ExitedWith("opening browser")

\* C5 amended: the same for package discovery, an absent profile, the HTML
\* generation and the opening of the report; a failure of the test runner
\* is reported and does not by itself end the run.
C5_FailuresOtherThanTestsExitNonZero ==
    pc = "exit" =>
        /\ DiscoveryFailed => ExitedWith("finding go packages")
        /\ ProfileAbsent => ExitedWith("coverage profile not generated")
        /\ HTMLFailed => ExitedWith("generating coverage HTML")
        /\ OpenFailed => ExitedWith("opening browser")

\* the HTML generation has failed after a test run that passed and whose
\* summary was printed, and the process has exited with status 1
C5_Witness ==
    /\ pc = "exit"
    /\ HTMLFailed
    /\ ~testErr
    /\ SummaryRead
    /\ exitCode = 1

\* C9: when the go test run of this invocation wrote no profile, run ends
\* with "coverage profile not generated", and prints no summary, generates
\* no HTML and opens no browser.
C9_NoProfileNoSummary ==
    (GoTestInvoked /\ ~env.profile.exists) =>
        /\ ~summary.called
        /\ ~htmlGenerated
        /\ ~browserOpened
        /\ pc = "exit" => ExitedWith("coverage profile not generated")

\* ---- the totals of the summary
\* the sum of one counter over the packages of the map
RECURSIVE SumOfCounter(_, _)
SumOfCounter(counterOf, pkgs) ==
    IF pkgs = {} THEN 0
    ELSE LET P == CHOOSE Q \in pkgs : TRUE IN
         counterOf[P] + SumOfCounter(counterOf, pkgs \ {P})

TableRead == SummaryRead /\ DOMAIN summary.packageStats # {}

\* C11: for a profile that yields at least one package the table is
\* printed, its total t is the sum of TotalStatements over the packages
\* of the map, c the sum of CoveredStatements, and the TOTAL percentage
\* is c/t*100 when t > 0 and 0 otherwise.
C11_TotalsAreSumsOverPackages ==
    TableRead =>
        LET stats == summary.packageStats
            t == SumOfCounter([P \in DOMAIN stats |-> stats[P].TotalStatements],
                              DOMAIN stats)
            c == SumOfCounter([P \in DOMAIN stats |-> stats[P].CoveredStatements],
                              DOMAIN stats)
        IN  /\ summary.printed = "table"
            /\ summary.totals.totalStatements = t
            /\ summary.totals.totalCovered = c
            /\ summary.totalCoverage.den > 0
            /\ t > 0 => summary.totalCoverage.num * t
                           = c * 100 * summary.totalCoverage.den
            /\ ~(t > 0) => summary.totalCoverage.num = 0

\* the table has been printed for two packages, with some and not all of
\* the statements covered
C11_Witness ==
    /\ TableRead
    /\ Cardinality(DOMAIN summary.packageStats) >= 2
    /\ summary.totals.totalCovered > 0
    /\ summary.totals.totalStatements > summary.totals.totalCovered
    /\ \A P \in DOMAIN summary.packageStats :
          summary.packageStats[P].TotalStatements < summary.totals.totalStatements

\* the table has been printed with a total of no statements or fewer
C11_NoStatementsReached ==
    TableRead /\ summary.totals.totalStatements <= 0

\* ---- the order of the steps of run
\* the position of the first of the given lines in what was printed; 0
\* when none of them was printed
FirstPrinted(lines) ==
    IF \E i \in 1..Len(stdout) : stdout[i] \in lines
    THEN CHOOSE i \in 1..Len(stdout) :
            /\ stdout[i] \in lines
            /\ \A j \in 1..(i - 1) : stdout[j] \notin lines
    ELSE 0

TestsReported == FirstPrinted({"Tests failed", "All tests passed"})

SummaryPrinted == FirstPrinted({"COVERAGE SUMMARY"})

OpenerInvoked == FirstPrinted({"Opening /tmp/cover.html in browser..."})

HTMLAttempted ==
    htmlGenerated \/ pc = "open" \/ runErr \in {"generating coverage HTML", "opening browser"}

\* C12: go test is invoked only when a package was found, and with none
\* run prints "No Go packages found" and returns nil with nothing invoked;
\* the summary comes only after the test run, the HTML generation only
\* after the summary step, the opener only after the HTML was generated;
\* a failure to read the coverage statistics is a warning after which the
\* report is still generated and opened.
C12_StepsInOrder ==
    /\ GoTestInvoked => packages # <<>>
    /\ GoTestInvoked <=> TestsReported > 0
    /\ (pc = "exit" /\ RunCalled /\ ~env.walkErr /\ packages = <<>>) =>
          /\ stdout = <<"No Go packages found">>
          /\ exitCode = 0 /\ runErr = ""
          /\ ~GoTestInvoked /\ ~summary.called /\ ~HTMLAttempted
          /\ OpenerInvoked = 0 /\ ~browserOpened
    /\ summary.called <=> SummaryPrinted > 0
    /\ summary.called => GoTestInvoked /\ TestsReported < SummaryPrinted
    /\ HTMLAttempted => summary.called
    /\ OpenerInvoked > 0 => htmlGenerated /\ SummaryPrinted < OpenerInvoked
    /\ browserOpened => OpenerInvoked > 0
    /\ summary.err =>
          /\ "Warning: could not parse coverage stats"
                \in {stdout[i] : i \in 1..Len(stdout)}
          /\ pc = "exit" =>
                /\ htmlGenerated <=> ~env.htmlErr
                /\ OpenerInvoked > 0 <=> ~env.htmlErr
                /\ browserOpened <=> (~env.htmlErr /\ ~env.browserErr)
                /\ runErr \in {"", "generating coverage HTML", "opening browser"}

\* the statistics could not be read, the warning was printed, and the
\* report has been generated and opened after the test run
C12_Witness ==
    /\ pc = "exit"
    /\ summary.err
    /\ 0 < TestsReported
    /\ TestsReported < SummaryPrinted
    /\ SummaryPrinted < OpenerInvoked
    /\ htmlGenerated
    /\ browserOpened
    /\ exitCode = 0

=============================================================================
